---- MODULE Spec2Model ----
(***************************************************************************)
(* Model of the Portfolio ledger of src/src/lib.rs: two hash maps          *)
(* (holdings, purchase_records), the mutating calls purchase and sell,     *)
(* both routed through transact, and the queries is_empty, share_count     *)
(* and get_purchase_record.                                                *)
(*                                                                         *)
(* Share counts are u32.  The model checker's integers are 32-bit signed,  *)
(* so a u32 is kept as two 16-bit limbs [hi, lo] of value hi * 2^16 + lo   *)
(* and checked_add / checked_sub are computed limb by limb with carry and  *)
(* borrow, which keeps the full width 0 .. 2^32 - 1.                       *)
(***************************************************************************)
EXTENDS Integers, Sequences, FiniteSets, TLC

VARIABLES
    holdings,          \* Portfolio::holdings
    purchase_records,  \* Portfolio::purchase_records
    last,              \* the last call, its result and the maps before it
    succeeded,         \* the symbols on which a purchase or sell returned Ok
    ok_calls,          \* per symbol, the purchase and sell calls that returned Ok
    clean,             \* a second Portfolio given the calls without the failed ones
    clock,             \* the wall clock of the environment, in milliseconds
    pending,           \* whether the twin still has to be given the last call
    twin               \* a third Portfolio given the same calls at another time

vars == <<holdings, purchase_records, last, succeeded, ok_calls, clean,
          clock, pending, twin>>

ledger_vars == <<holdings, purchase_records, succeeded, ok_calls>>

twin_vars == <<clock, pending, twin>>

(* ---------------------------------------------------------------------- *)
(* Bounds of the model                                                     *)
(* ---------------------------------------------------------------------- *)

\* No call is made once this many records are stored in the ledger.
MaxRecords == 4

\* The same limit for the run that drives the twin ledger.
MaxTwinRecords == 2

\* The same limit for the run that drives the ledger without failed calls.
MaxCleanRecords == 3

\* The wall clock stops at this many milliseconds.
MaxClock == 1

\* The symbols used by the tests of the repository.
IBM == "IBM"

AAPL == "AAPL"

Symbols == {IBM, AAPL}

(* ---------------------------------------------------------------------- *)
(* u32 arithmetic                                                          *)
(* ---------------------------------------------------------------------- *)

\* 2^16: the weight of the high limb of a u32.
LimbBase == 65536

U32(h, l) == [hi |-> h, lo |-> l]

U32_ZERO == U32(0, 0)

U32_MAX == U32(LimbBase - 1, LimbBase - 1)

\* Option<u32>
None == [some |-> FALSE, val |-> U32_ZERO]

Some(v) == [some |-> TRUE, val |-> v]

\* u32::wrapping_add, the sum modulo 2^32
wrapping_add(a, b) ==
    LET lo == a.lo + b.lo
        hi == a.hi + b.hi + (lo \div LimbBase)
    IN  Some(U32(hi % LimbBase, lo % LimbBase))

\* u32::checked_add: None when the sum does not fit in 32 bits
checked_add(a, b) ==
    LET lo == a.lo + b.lo
        hi == a.hi + b.hi + (lo \div LimbBase)
    IN  IF hi >= LimbBase
        THEN None
        ELSE Some(U32(hi, lo % LimbBase))

\* a subtraction that refuses to reach zero
checked_sub_strict(a, b) ==
    LET borrow == IF a.lo < b.lo THEN 1 ELSE 0
        hi == a.hi - b.hi - borrow
        lo == a.lo + borrow * LimbBase - b.lo
    IN  IF hi < 0 \/ (hi = 0 /\ lo = 0)
        THEN None
        ELSE Some(U32(hi, lo))

\* u32::wrapping_sub, the difference modulo 2^32
wrapping_sub(a, b) ==
    LET borrow == IF a.lo < b.lo THEN 1 ELSE 0
        hi == a.hi - b.hi - borrow
        lo == a.lo + borrow * LimbBase - b.lo
    IN  Some(U32(hi % LimbBase, lo))

\* u32::checked_sub: None when the difference is negative
checked_sub(a, b) ==
    LET borrow == IF a.lo < b.lo THEN 1 ELSE 0
        hi == a.hi - b.hi - borrow
        lo == a.lo + borrow * LimbBase - b.lo
    IN  IF hi < 0
        THEN None
        ELSE Some(U32(hi, lo))

(* ---------------------------------------------------------------------- *)
(* Records                                                                 *)
(* ---------------------------------------------------------------------- *)

Purchase == "Purchase"

Sell == "Sell"

TransactionType == {Purchase, Sell}

FIXED_EPOCH_TIME_MS == 0

\* NaiveDateTime::from_timestamp_millis(ms): seconds and nanoseconds
from_timestamp_millis(ms) ==
    [secs |-> ms \div 1000, nanos |-> (ms % 1000) * 1000000]

\* the current time of the wall clock instead of the fixed instant
now_date_time == from_timestamp_millis(clock)

fixed_date_time == from_timestamp_millis(FIXED_EPOCH_TIME_MS)

PurchaseRecord(shares, transaction_type) ==
    [date |-> fixed_date_time, shares |-> shares,
     transaction_type |-> transaction_type]

EMPTY_PURCHASE_RECORD == << >>

(* ---------------------------------------------------------------------- *)
(* Portfolio                                                               *)
(* ---------------------------------------------------------------------- *)

\* HashMap::entry(key).or_default(): the map with the key present
or_default(map, key, default) ==
    IF key \in DOMAIN map THEN map ELSE map @@ (key :> default)

\* Portfolio::new
new == [holdings |-> << >>, purchase_records |-> << >>]

is_empty(h) == DOMAIN h = {}

\* a validation that accepts every amount
validate_share_count_any(shares) == "Ok"

validate_share_count(shares) ==
    IF shares = U32_ZERO THEN "ZeroShares" ELSE "Ok"

\* update_holdings without the final store of the new count
update_holdings_no_store(h, symbol, shares, transaction_type) ==
    LET h1 == or_default(h, symbol, U32_ZERO)
        count == h1[symbol]
        new_shares == IF transaction_type = Purchase
                      THEN checked_add(count, shares)
                      ELSE checked_sub(count, shares)
    IN  IF new_shares.some
        THEN [result |-> "Ok", holdings |-> h1]
        ELSE [result |-> IF transaction_type = Purchase
                         THEN "InvalidPurchase" ELSE "InvalidSell",
              holdings |-> h1]

\* update_holdings with a wrapping addition
update_holdings_wrapping(h, symbol, shares, transaction_type) ==
    LET h1 == or_default(h, symbol, U32_ZERO)
        count == h1[symbol]
        new_shares == IF transaction_type = Purchase
                      THEN wrapping_add(count, shares)
                      ELSE checked_sub(count, shares)
    IN  IF new_shares.some
        THEN [result |-> "Ok",
              holdings |-> [h1 EXCEPT ![symbol] = new_shares.val]]
        ELSE [result |-> IF transaction_type = Purchase
                         THEN "InvalidPurchase" ELSE "InvalidSell",
              holdings |-> h1]

\* update_holdings with a subtraction that refuses to sell everything
update_holdings_strict(h, symbol, shares, transaction_type) ==
    LET h1 == or_default(h, symbol, U32_ZERO)
        count == h1[symbol]
        new_shares == IF transaction_type = Purchase
                      THEN checked_add(count, shares)
                      ELSE checked_sub_strict(count, shares)
    IN  IF new_shares.some
        THEN [result |-> "Ok",
              holdings |-> [h1 EXCEPT ![symbol] = new_shares.val]]
        ELSE [result |-> IF transaction_type = Purchase
                         THEN "InvalidPurchase" ELSE "InvalidSell",
              holdings |-> h1]

\* update_holdings that clears the other symbols' counts
update_holdings_clobber(h, symbol, shares, transaction_type) ==
    LET h1 == or_default(h, symbol, U32_ZERO)
        count == h1[symbol]
        new_shares == IF transaction_type = Purchase
                      THEN checked_add(count, shares)
                      ELSE checked_sub(count, shares)
    IN  IF new_shares.some
        THEN [result |-> "Ok",
              holdings |-> [s \in DOMAIN h1 |->
                              IF s = symbol THEN new_shares.val
                                            ELSE U32_ZERO]]
        ELSE [result |-> IF transaction_type = Purchase
                         THEN "InvalidPurchase" ELSE "InvalidSell",
              holdings |-> h1]

\* update_holdings with a wrapping subtraction
update_holdings_wrapping_sub(h, symbol, shares, transaction_type) ==
    LET h1 == or_default(h, symbol, U32_ZERO)
        count == h1[symbol]
        new_shares == IF transaction_type = Purchase
                      THEN checked_add(count, shares)
                      ELSE wrapping_sub(count, shares)
    IN  IF new_shares.some
        THEN [result |-> "Ok",
              holdings |-> [h1 EXCEPT ![symbol] = new_shares.val]]
        ELSE [result |-> IF transaction_type = Purchase
                         THEN "InvalidPurchase" ELSE "InvalidSell",
              holdings |-> h1]

\* The entry of the symbol is created (with count 0) before the new count
\* is computed, and stays in the map when the computation fails.
update_holdings(h, symbol, shares, transaction_type) ==
    LET h1 == or_default(h, symbol, U32_ZERO)
        count == h1[symbol]
        new_shares == IF transaction_type = Purchase
                      THEN checked_add(count, shares)
                      ELSE checked_sub(count, shares)
    IN  IF new_shares.some
        THEN [result |-> "Ok",
              holdings |-> [h1 EXCEPT ![symbol] = new_shares.val]]
        ELSE [result |-> IF transaction_type = Purchase
                         THEN "InvalidPurchase" ELSE "InvalidSell",
              holdings |-> h1]

\* update_purchase_records that puts the new record first
update_purchase_records_front(p, symbol, shares, transaction_type) ==
    LET p1 == or_default(p, symbol, EMPTY_PURCHASE_RECORD)
    IN  [result |-> "Ok",
         purchase_records |->
            [p1 EXCEPT ![symbol] =
                <<PurchaseRecord(shares, transaction_type)>> \o @]]

\* update_purchase_records that records every transaction as a Purchase
update_purchase_records_kind(p, symbol, shares, transaction_type) ==
    LET p1 == or_default(p, symbol, EMPTY_PURCHASE_RECORD)
    IN  [result |-> "Ok",
         purchase_records |->
            [p1 EXCEPT ![symbol] =
                Append(@, PurchaseRecord(shares, Purchase))]]

\* update_purchase_records that stores the new record in place of the history
update_purchase_records_replace(p, symbol, shares, transaction_type) ==
    LET p1 == or_default(p, symbol, EMPTY_PURCHASE_RECORD)
    IN  [result |-> "Ok",
         purchase_records |->
            [p1 EXCEPT ![symbol] =
                <<PurchaseRecord(shares, transaction_type)>>]]

update_purchase_records(p, symbol, shares, transaction_type) ==
    LET p1 == or_default(p, symbol, EMPTY_PURCHASE_RECORD)
    IN  [result |-> "Ok",
         purchase_records |->
            [p1 EXCEPT ![symbol] =
                Append(@, PurchaseRecord(shares, transaction_type))]]

\* transact that appends the record before it updates the holdings
transact_records_first(h, p, symbol, shares, transaction_type) ==
    LET v == validate_share_count(shares)
        r == update_purchase_records(p, symbol, shares, transaction_type)
        u == update_holdings(h, symbol, shares, transaction_type)
    IN  IF v # "Ok"
        THEN [result |-> v, holdings |-> h, purchase_records |-> p]
        ELSE [result |-> u.result, holdings |-> u.holdings,
              purchase_records |-> r.purchase_records]

\* transact without the validation of the share amount
transact_no_validate(h, p, symbol, shares, transaction_type) ==
    LET u == update_holdings(h, symbol, shares, transaction_type)
        r == update_purchase_records(p, symbol, shares, transaction_type)
    IN  IF u.result # "Ok"
        THEN [result |-> u.result, holdings |-> u.holdings,
              purchase_records |-> p]
        ELSE [result |-> r.result, holdings |-> u.holdings,
              purchase_records |-> r.purchase_records]

\* validate_share_count(shares)?; update_holdings(..)?;
\* update_purchase_records(..): each `?` returns the error at once.
transact(h, p, symbol, shares, transaction_type) ==
    LET v == validate_share_count(shares)
        u == update_holdings(h, symbol, shares, transaction_type)
        r == update_purchase_records(p, symbol, shares, transaction_type)
    IN  IF v # "Ok"
        THEN [result |-> v, holdings |-> h, purchase_records |-> p]
        ELSE IF u.result # "Ok"
        THEN [result |-> u.result, holdings |-> u.holdings,
              purchase_records |-> p]
        ELSE [result |-> r.result, holdings |-> u.holdings,
              purchase_records |-> r.purchase_records]

purchase(h, p, symbol, shares) == transact(h, p, symbol, shares, Purchase)

sell(h, p, symbol, shares) == transact(h, p, symbol, shares, Sell)

\* share_count that answers 1 for a symbol without an entry
share_count_default_one(h, symbol) ==
    IF symbol \in DOMAIN h THEN h[symbol] ELSE U32(0, 1)

share_count(h, symbol) ==
    IF symbol \in DOMAIN h THEN h[symbol] ELSE U32_ZERO

get_purchase_record(p, symbol) ==
    IF symbol \in DOMAIN p
    THEN [result |-> "Ok", value |-> p[symbol]]
    ELSE [result |-> "NoSymbolHistory", value |-> << >>]

(* ---------------------------------------------------------------------- *)
(* The calls a client makes                                                *)
(* ---------------------------------------------------------------------- *)

\* The share amounts the calls are made with: 0, small amounts, the
\* amounts around the carry between the limbs, and the top of the range.
ShareAmounts ==
    {U32_ZERO, U32(0, 1), U32(0, 2), U32(0, LimbBase - 1),
     U32(LimbBase - 1, LimbBase - 2), U32_MAX}

RECURSIVE TotalRecords(_, _)
TotalRecords(p, syms) ==
    IF syms = {} THEN 0
    ELSE LET s == CHOOSE x \in syms : TRUE
         IN  Len(p[s]) + TotalRecords(p, syms \ {s})

CanCall == TotalRecords(purchase_records, DOMAIN purchase_records) < MaxRecords

\* What the last call was, what it returned, and the maps before it.
Call(op, symbol, shares, result, value) ==
    [op |-> op, symbol |-> symbol, shares |-> shares, result |-> result,
     value |-> value,
     holdings |-> holdings, purchase_records |-> purchase_records]

Init ==
    /\ holdings = new.holdings
    /\ purchase_records = new.purchase_records
    /\ last = [op |-> "new", symbol |-> "", shares |-> U32_ZERO,
               result |-> "Ok", value |-> U32_ZERO,
               holdings |-> new.holdings,
               purchase_records |-> new.purchase_records]
    /\ succeeded = {}
    /\ ok_calls = [s \in Symbols |-> << >>]
    /\ clean = [holdings |-> new.holdings,
                purchase_records |-> new.purchase_records,
                result |-> "Ok", deleting |-> TRUE]
    /\ clock = 0
    /\ pending = [waiting |-> FALSE, at |-> 0, replayed_at |-> 0]
    /\ twin = [holdings |-> new.holdings,
               purchase_records |-> new.purchase_records,
               result |-> "Ok", value |-> U32_ZERO]

DoTransact(op, t, symbol, shares) ==
    /\ holdings' = t.holdings
    /\ purchase_records' = t.purchase_records
    /\ last' = Call(op, symbol, shares, t.result, U32_ZERO)
    /\ succeeded' = IF t.result = "Ok" THEN succeeded \cup {symbol}
                                       ELSE succeeded
    /\ ok_calls' = IF t.result = "Ok"
                   THEN [ok_calls EXCEPT ![symbol] =
                            Append(@, [op |-> op, shares |-> shares])]
                   ELSE ok_calls

PurchaseCall ==
    \E symbol \in Symbols, shares \in ShareAmounts :
        DoTransact("purchase",
                   purchase(holdings, purchase_records, symbol, shares),
                   symbol, shares)

SellCall ==
    \E symbol \in Symbols, shares \in ShareAmounts :
        DoTransact("sell",
                   sell(holdings, purchase_records, symbol, shares),
                   symbol, shares)

IsEmptyCall ==
    /\ last' = Call("is_empty", "", U32_ZERO, "Ok", is_empty(holdings))
    /\ UNCHANGED ledger_vars

ShareCountCall ==
    /\ \E symbol \in Symbols :
         last' = Call("share_count", symbol, U32_ZERO, "Ok",
                      share_count(holdings, symbol))
    /\ UNCHANGED ledger_vars

GetPurchaseRecordCall ==
    /\ \E symbol \in Symbols :
         LET g == get_purchase_record(purchase_records, symbol)
         IN  last' = Call("get_purchase_record", symbol, U32_ZERO,
                          g.result, g.value)
    /\ UNCHANGED ledger_vars

DoPurchase ==
    /\ CanCall
    /\ PurchaseCall
    /\ UNCHANGED <<clean, clock, pending, twin>>

DoSell ==
    /\ CanCall
    /\ SellCall
    /\ UNCHANGED <<clean, clock, pending, twin>>

DoIsEmpty ==
    /\ CanCall
    /\ IsEmptyCall
    /\ UNCHANGED <<clean, clock, pending, twin>>

DoShareCount ==
    /\ CanCall
    /\ ShareCountCall
    /\ UNCHANGED <<clean, clock, pending, twin>>

DoGetPurchaseRecord ==
    /\ CanCall
    /\ GetPurchaseRecordCall
    /\ UNCHANGED <<clean, clock, pending, twin>>

Next ==
    \/ DoPurchase
    \/ DoSell
    \/ DoIsEmpty
    \/ DoShareCount
    \/ DoGetPurchaseRecord

Spec == Init /\ [][Next]_vars

(* ---------------------------------------------------------------------- *)
(* Two portfolios given the same calls at different times                  *)
(* ---------------------------------------------------------------------- *)

\* The call `c` made on the portfolio t: its maps afterwards and its result.
Replay(t, c) ==
    CASE c.op = "purchase" ->
            LET x == purchase(t.holdings, t.purchase_records,
                              c.symbol, c.shares)
            IN  [holdings |-> x.holdings,
                 purchase_records |-> x.purchase_records,
                 result |-> x.result, value |-> U32_ZERO]
      [] c.op = "sell" ->
            LET x == sell(t.holdings, t.purchase_records, c.symbol, c.shares)
            IN  [holdings |-> x.holdings,
                 purchase_records |-> x.purchase_records,
                 result |-> x.result, value |-> U32_ZERO]
      [] c.op = "is_empty" ->
            [t EXCEPT !.result = "Ok", !.value = is_empty(t.holdings)]
      [] c.op = "share_count" ->
            [t EXCEPT !.result = "Ok",
                      !.value = share_count(t.holdings, c.symbol)]
      [] c.op = "get_purchase_record" ->
            LET g == get_purchase_record(t.purchase_records, c.symbol)
            IN  [t EXCEPT !.result = g.result, !.value = g.value]

TwinCanCall ==
    /\ ~pending.waiting
    /\ TotalRecords(purchase_records, DOMAIN purchase_records)
          < MaxTwinRecords

\* The call is made on the portfolio now and is owed to the twin.
TwinOwed ==
    /\ pending' = [pending EXCEPT !.waiting = TRUE, !.at = clock]
    /\ UNCHANGED <<clean, clock, twin>>

TwinPurchase == TwinCanCall /\ PurchaseCall /\ TwinOwed

TwinSell == TwinCanCall /\ SellCall /\ TwinOwed

TwinIsEmpty == TwinCanCall /\ IsEmptyCall /\ TwinOwed

TwinShareCount == TwinCanCall /\ ShareCountCall /\ TwinOwed

TwinGetPurchaseRecord == TwinCanCall /\ GetPurchaseRecordCall /\ TwinOwed

\* The twin is given the call, at whatever time the clock shows by then.
TwinReplay ==
    /\ pending.waiting
    /\ twin' = Replay(twin, last)
    /\ pending' = [pending EXCEPT !.waiting = FALSE, !.replayed_at = clock]
    /\ UNCHANGED <<last, clean, clock>>
    /\ UNCHANGED ledger_vars

TwinTick ==
    /\ clock < MaxClock
    /\ clock' = clock + 1
    /\ UNCHANGED <<last, clean, pending, twin>>
    /\ UNCHANGED ledger_vars

TwinNext ==
    \/ TwinPurchase
    \/ TwinSell
    \/ TwinIsEmpty
    \/ TwinShareCount
    \/ TwinGetPurchaseRecord
    \/ TwinReplay
    \/ TwinTick

TwinSpec == Init /\ [][TwinNext]_vars

(* ---------------------------------------------------------------------- *)
(* A portfolio given the calls without the failed ones                     *)
(* ---------------------------------------------------------------------- *)

\* The ledger `clean` is given the same calls as the portfolio, except
\* that, as long as `deleting` holds, the calls that failed on the
\* portfolio are left out.
CleanStep(c, deleting, op, symbol, shares, result) ==
    IF deleting /\ result # "Ok"
    THEN [c EXCEPT !.result = "deleted"]
    ELSE LET x == IF op = "purchase"
                  THEN purchase(c.holdings, c.purchase_records,
                                symbol, shares)
                  ELSE sell(c.holdings, c.purchase_records, symbol, shares)
         IN  [holdings |-> x.holdings,
              purchase_records |-> x.purchase_records,
              result |-> x.result, deleting |-> deleting]

CleanCanCall ==
    TotalRecords(purchase_records, DOMAIN purchase_records) < MaxCleanRecords

CleanPurchase ==
    /\ CleanCanCall
    /\ \E symbol \in Symbols, shares \in ShareAmounts :
         LET t == purchase(holdings, purchase_records, symbol, shares)
         IN  /\ DoTransact("purchase", t, symbol, shares)
             /\ \E deleting \in {clean.deleting, FALSE} :
                   clean' = CleanStep(clean, deleting, "purchase",
                                      symbol, shares, t.result)
    /\ UNCHANGED twin_vars

CleanSell ==
    /\ CleanCanCall
    /\ \E symbol \in Symbols, shares \in ShareAmounts :
         LET t == sell(holdings, purchase_records, symbol, shares)
         IN  /\ DoTransact("sell", t, symbol, shares)
             /\ \E deleting \in {clean.deleting, FALSE} :
                   clean' = CleanStep(clean, deleting, "sell",
                                      symbol, shares, t.result)
    /\ UNCHANGED twin_vars

CleanIsEmpty ==
    /\ CleanCanCall
    /\ IsEmptyCall
    /\ UNCHANGED <<clean, clock, pending, twin>>

CleanShareCount ==
    /\ CleanCanCall
    /\ ShareCountCall
    /\ UNCHANGED <<clean, clock, pending, twin>>

CleanGetPurchaseRecord ==
    /\ CleanCanCall
    /\ GetPurchaseRecordCall
    /\ UNCHANGED <<clean, clock, pending, twin>>

CleanNext ==
    \/ CleanPurchase
    \/ CleanSell
    \/ CleanIsEmpty
    \/ CleanShareCount
    \/ CleanGetPurchaseRecord

CleanSpec == Init /\ [][CleanNext]_vars

(* ---------------------------------------------------------------------- *)
(* Numbers wider than 32 bits, for stating the properties                  *)
(* ---------------------------------------------------------------------- *)

\* The exact sum of two numbers kept as [hi, lo] with hi unbounded.
WideAdd(a, b) ==
    LET lo == a.lo + b.lo
    IN  [hi |-> a.hi + b.hi + (lo \div LimbBase), lo |-> lo % LimbBase]

WideLess(a, b) == a.hi < b.hi \/ (a.hi = b.hi /\ a.lo < b.lo)

\* The exact sum of the shares of the records of one kind in a history.
RECURSIVE SharesOf(_, _)
SharesOf(records, kind) ==
    IF records = << >> THEN U32_ZERO
    ELSE LET r == Head(records)
             rest == SharesOf(Tail(records), kind)
         IN  IF r.transaction_type = kind THEN WideAdd(r.shares, rest)
                                          ELSE rest

\* The history a client sees for a symbol, empty when there is none.
HistoryOf(p, symbol) == get_purchase_record(p, symbol).value

IsTransact == last.op \in {"purchase", "sell"}

Failed == last.result \in {"ZeroShares", "InvalidSell", "InvalidPurchase"}

(* ---------------------------------------------------------------------- *)
(* Properties                                                              *)
(* ---------------------------------------------------------------------- *)

\* C1: a purchase or sell that returns ZeroShares, InvalidSell or
\* InvalidPurchase leaves the holdings map and the history map, keys
\* included, exactly as they were before the call.
C1_FailedCallLeavesMapsUnchanged ==
    (IsTransact /\ Failed) =>
        /\ holdings = last.holdings
        /\ purchase_records = last.purchase_records

\* C2: for every symbol the share count equals the shares of the Purchase
\* records minus the shares of the Sell records of its history (0 when it
\* has no history); stated as count + sold = purchased.
C2_CountIsNetOfHistory ==
    \A s \in Symbols :
        WideAdd(share_count(holdings, s),
                SharesOf(HistoryOf(purchase_records, s), Sell))
          = SharesOf(HistoryOf(purchase_records, s), Purchase)

C2_Witness ==
    /\ last.op = "sell"
    /\ last.result = "Ok"
    /\ Len(HistoryOf(purchase_records, last.symbol)) >= 3
    /\ share_count(holdings, last.symbol) # U32_ZERO

\* C3: is_empty() is true if and only if no purchase or sell has succeeded.
C3_EmptyIffNoSuccess ==
    is_empty(holdings) <=> (succeeded = {})

\* C4: get_history(symbol) fails with NoSymbolHistory if and only if no
\* purchase or sell on the symbol has succeeded, and otherwise returns a
\* non-empty sequence.
C4_HistoryIffSucceeded ==
    \A s \in Symbols :
        LET g == get_purchase_record(purchase_records, s)
        IN  /\ (g.result = "NoSymbolHistory") <=> (s \notin succeeded)
            /\ g.result \in {"Ok", "NoSymbolHistory"}
            /\ g.result = "Ok" => Len(g.value) >= 1

\* A symbol sold down to 0 still answers its history, while the other
\* symbol, on which only a failing call was made, has none.
C4_Witness ==
    /\ last.op = "get_purchase_record"
    /\ last.result = "Ok"
    /\ Len(last.value) >= 2
    /\ share_count(holdings, last.symbol) = U32_ZERO
    /\ \E t \in Symbols :
          /\ t \in DOMAIN holdings
          /\ get_purchase_record(purchase_records, t).result
                = "NoSymbolHistory"

\* C5: for shares >= 1, sell fails with InvalidSell if and only if shares
\* exceeds the current count (0 for a symbol never purchased), and a
\* rejected sell creates no history entry.
C5_SellRejectedIffOversell ==
    (last.op = "sell" /\ last.shares # U32_ZERO) =>
        LET count == share_count(last.holdings, last.symbol)
        IN  /\ (last.result = "InvalidSell") <=> WideLess(count, last.shares)
            /\ last.result \in {"Ok", "InvalidSell"}
            /\ last.result = "InvalidSell" =>
                  purchase_records = last.purchase_records

C5_Witness ==
    /\ last.op = "sell"
    /\ last.result = "InvalidSell"
    /\ last.symbol \notin DOMAIN last.holdings
    /\ last.symbol \notin DOMAIN purchase_records

\* C6: for shares >= 1, purchase fails with InvalidPurchase if and only if
\* count + shares exceeds 2^32 - 1; a rejected purchase changes neither
\* the count nor the history, and an accepted one stores the exact sum.
C6_PurchaseRejectedIffOverflow ==
    (last.op = "purchase" /\ last.shares # U32_ZERO) =>
        LET count == share_count(last.holdings, last.symbol)
            sum == WideAdd(count, last.shares)
        IN  /\ (last.result = "InvalidPurchase") <=>
                  WideLess([hi |-> 65535, lo |-> 65535], sum)
            /\ last.result \in {"Ok", "InvalidPurchase"}
            /\ last.result = "InvalidPurchase" =>
                  /\ share_count(holdings, last.symbol) = count
                  /\ purchase_records = last.purchase_records
            /\ last.result = "Ok" =>
                  share_count(holdings, last.symbol) = sum

\* Two purchases landed exactly on 2^32 - 1 and a third one is rejected.
C6_Witness ==
    /\ last.op = "purchase"
    /\ last.result = "InvalidPurchase"
    /\ share_count(last.holdings, last.symbol) = [hi |-> 65535, lo |-> 65535]
    /\ Len(HistoryOf(purchase_records, last.symbol)) = 2

\* C7: purchase(symbol, 0) and sell(symbol, 0) fail with ZeroShares for
\* any symbol in any state and leave the whole ledger unchanged.
C7_ZeroSharesRejected ==
    (IsTransact /\ last.shares = U32_ZERO) =>
        /\ last.result = "ZeroShares"
        /\ holdings = last.holdings
        /\ purchase_records = last.purchase_records

C7_Witness ==
    /\ last.op = "sell"
    /\ last.shares = U32_ZERO
    /\ last.result = "ZeroShares"
    /\ last.symbol \notin DOMAIN holdings
    /\ DOMAIN holdings # {}

\* C8: a successful purchase sets the count to old_count + shares and
\* appends exactly one record {fixed timestamp, shares, Purchase} at the
\* end of the symbol's history, creating the history if absent.
C8_PurchaseApplies ==
    (last.op = "purchase" /\ last.result = "Ok") =>
        /\ share_count(holdings, last.symbol)
             = WideAdd(share_count(last.holdings, last.symbol), last.shares)
        /\ get_purchase_record(purchase_records, last.symbol).result = "Ok"
        /\ HistoryOf(purchase_records, last.symbol)
             = HistoryOf(last.purchase_records, last.symbol)
                 \o <<[date |-> [secs |-> 0, nanos |-> 0],
                       shares |-> last.shares,
                       transaction_type |-> "Purchase"]>>

\* a then b shares of the same symbol, a # b
C8_Witness ==
    /\ last.op = "purchase"
    /\ last.result = "Ok"
    /\ LET h == HistoryOf(purchase_records, last.symbol)
       IN  /\ Len(h) = 2
           /\ h[1].transaction_type = "Purchase"
           /\ h[1].shares # h[2].shares
           /\ share_count(holdings, last.symbol)
                = WideAdd(h[1].shares, h[2].shares)

\* C9: a successful sell, one with 1 <= shares <= count, sets the count
\* to old_count - shares and appends exactly one record {fixed timestamp,
\* shares, Sell} at the end of the symbol's history.
C9_SellApplies ==
    (last.op = "sell" /\ last.shares # U32_ZERO
        /\ ~WideLess(share_count(last.holdings, last.symbol), last.shares)) =>
        /\ last.result = "Ok"
        /\ WideAdd(share_count(holdings, last.symbol), last.shares)
             = share_count(last.holdings, last.symbol)
        /\ HistoryOf(purchase_records, last.symbol)
             = HistoryOf(last.purchase_records, last.symbol)
                 \o <<[date |-> [secs |-> 0, nanos |-> 0],
                       shares |-> last.shares,
                       transaction_type |-> "Sell"]>>

\* the entire holding is sold
C9_Witness ==
    /\ last.op = "sell"
    /\ last.result = "Ok"
    /\ share_count(last.holdings, last.symbol) = last.shares
    /\ share_count(holdings, last.symbol) = U32_ZERO

\* C10: a purchase or sell on symbol s, successful or not, leaves the
\* share count and the history, present or absent, of every other symbol
\* unchanged.
C10_OtherSymbolsUntouched ==
    IsTransact =>
        \A t \in Symbols \ {last.symbol} :
            /\ share_count(holdings, t) = share_count(last.holdings, t)
            /\ get_purchase_record(purchase_records, t)
                 = get_purchase_record(last.purchase_records, t)

C10_Witness ==
    /\ IsTransact
    /\ last.result = "Ok"
    /\ \E t \in Symbols \ {last.symbol} :
          /\ share_count(holdings, t) # U32_ZERO
          /\ Len(HistoryOf(purchase_records, t)) >= 2

IsPrefix(a, b) == Len(a) <= Len(b) /\ SubSeq(b, 1, Len(a)) = a

\* C11: in every step each symbol's history before the step is a prefix
\* of its history after the step, and a history entry once present never
\* disappears.
C11_HistoryAppendOnly ==
    [][\A s \in Symbols :
          /\ s \in DOMAIN purchase_records => s \in DOMAIN purchase_records'
          /\ IsPrefix(HistoryOf(purchase_records, s),
                      HistoryOf(purchase_records', s))]_vars

\* a record was appended to a history that already held two
C11_Witness ==
    /\ IsTransact
    /\ last.result = "Ok"
    /\ Len(HistoryOf(last.purchase_records, last.symbol)) >= 2
    /\ Len(HistoryOf(purchase_records, last.symbol))
         = Len(HistoryOf(last.purchase_records, last.symbol)) + 1

\* C12: a fresh ledger is empty and answers 0 for every symbol; in every
\* state share_count answers 0 for every symbol on which no purchase or
\* sell has succeeded, and share_count never fails.
C12_UntouchedCountIsZero ==
    /\ last.op = "new" => is_empty(holdings)
    /\ \A s \in Symbols \ succeeded : share_count(holdings, s) = U32_ZERO
    /\ last.op = "share_count" =>
          /\ last.result = "Ok"
          /\ last.symbol \notin succeeded => last.value = U32_ZERO

\* share_count is asked for a symbol on which only a failing call was made
C12_Witness ==
    /\ last.op = "share_count"
    /\ last.symbol \notin succeeded
    /\ last.symbol \in DOMAIN holdings
    /\ succeeded # {}

\* C13: every record of every history has shares >= 1.
C13_NoZeroShareRecord ==
    \A s \in DOMAIN purchase_records :
        \A i \in 1..Len(purchase_records[s]) :
            WideLess(U32_ZERO, purchase_records[s][i].shares)

\* a zero-share call was made on a symbol that has records
C13_Witness ==
    /\ IsTransact
    /\ last.shares = U32_ZERO
    /\ Len(HistoryOf(purchase_records, last.symbol)) >= 1

\* C14: every share count lies in 0 .. 2^32 - 1, and no count is produced
\* by wrap-around: a successful purchase never lowers the count and a
\* successful sell never raises it.
C14_CountInRange ==
    /\ \A s \in DOMAIN holdings :
          /\ holdings[s].hi \in 0..65535
          /\ holdings[s].lo \in 0..65535
    /\ (last.op = "purchase" /\ last.result = "Ok") =>
          WideLess(share_count(last.holdings, last.symbol),
                   share_count(holdings, last.symbol))
    /\ (last.op = "sell" /\ last.result = "Ok") =>
          WideLess(share_count(holdings, last.symbol),
                   share_count(last.holdings, last.symbol))

\* a sell is rejected at count 0 while another symbol sits at 2^32 - 1
C14_Witness ==
    /\ last.op = "sell"
    /\ last.result = "InvalidSell"
    /\ last.symbol \in succeeded
    /\ share_count(holdings, last.symbol) = U32_ZERO
    /\ \E t \in Symbols :
          share_count(holdings, t) = [hi |-> 65535, lo |-> 65535]

\* C15: the keys of the holdings map are the keys of the history map.
C15_MapsCoIndexed ==
    DOMAIN holdings = DOMAIN purchase_records

\* C16: the length of a symbol's history is the number of successful
\* purchase and sell calls on the symbol, and the i-th record carries the
\* shares and the kind of the i-th successful call.
C16_HistoryIsLogOfSuccessfulCalls ==
    \A s \in Symbols :
        LET h == HistoryOf(purchase_records, s)
            c == ok_calls[s]
        IN  /\ Len(h) = Len(c)
            /\ \A i \in 1..Len(c) :
                  /\ h[i].shares = c[i].shares
                  /\ h[i].transaction_type
                       = (IF c[i].op = "purchase" THEN "Purchase" ELSE "Sell")

\* three successful calls of both kinds and then a failing one
C16_Witness ==
    /\ IsTransact
    /\ Failed
    /\ LET c == ok_calls[last.symbol]
       IN  /\ Len(c) >= 3
           /\ \E i, j \in 1..Len(c) : c[i].op = "purchase" /\ c[j].op = "sell"
           /\ c[1].shares # c[2].shares

\* C17: a portfolio given the same calls at other times returns the same
\* results and ends in the same state, and every record carries the
\* timestamp of epoch 0.
C17_TwinAgrees ==
    /\ ~pending.waiting =>
          /\ twin.holdings = holdings
          /\ twin.purchase_records = purchase_records
          /\ twin.result = last.result
          /\ twin.value = last.value
    /\ \A s \in DOMAIN purchase_records :
          \A i \in 1..Len(purchase_records[s]) :
              purchase_records[s][i].date = [secs |-> 0, nanos |-> 0]
    /\ \A s \in DOMAIN twin.purchase_records :
          \A i \in 1..Len(twin.purchase_records[s]) :
              twin.purchase_records[s][i].date = [secs |-> 0, nanos |-> 0]

\* the twin was given a sell later than the portfolio, after a purchase
C17_Witness ==
    /\ ~pending.waiting
    /\ pending.at # pending.replayed_at
    /\ last.op = "sell"
    /\ last.result = "Ok"
    /\ twin.result = "Ok"
    /\ Len(HistoryOf(twin.purchase_records, last.symbol)) >= 2

\* C18: on the ledger given the calls without the failed ones, every
\* later purchase, sell, share_count and get_purchase_record returns what
\* it returns on the portfolio.
C18_FailedCallsUnobservable ==
    /\ IsTransact =>
          \/ clean.result = last.result
          \/ clean.result = "deleted" /\ clean.deleting /\ Failed
    /\ \A s \in Symbols :
          /\ share_count(clean.holdings, s) = share_count(holdings, s)
          /\ get_purchase_record(clean.purchase_records, s)
               = get_purchase_record(purchase_records, s)

\* a failed call was left out, later calls were given to both ledgers,
\* one of them failing, and the two holdings maps differ
C18_Witness ==
    /\ ~clean.deleting
    /\ IsTransact
    /\ Failed
    /\ clean.result = last.result
    /\ clean.holdings # holdings
    /\ succeeded # {}

====
